---- MODULE Spec2Model ----
(***************************************************************************)
(* A model of mev-inspect-rs: the bounded-concurrency BatchEvaluator       *)
(* stream (src/inspectors/batch.rs) and the Compound inspector pass        *)
(* (src/inspectors/compound.rs).                                            *)
(***************************************************************************)
EXTENDS Integers, Sequences, FiniteSets, Bags, TLC

\* ------------------------------------------------------------------------
\* Bounds of the model
\* ------------------------------------------------------------------------

\* largest concurrency cap `max` explored (0 is included)
MaxCap == 2

\* largest number of blocks in the range [lo, hi)
MaxBlocks == 2

\* longest trace list and log list of a block whose grouping is examined
MaxTraces == 3
MaxLogs == 2

\* longest action list handed to an inspector pass
MaxActions == 3

\* the longest action list handed to the Balancer pass
MaxSwapActions == 4

\* most decoders in a registry and most calls in a transaction under the
\* decoder passes
MaxInspectors == 2
MaxCalls == 2

\* ------------------------------------------------------------------------
\* Inputs: what the archival node holds for one block
\* ------------------------------------------------------------------------

\* A trace list is a sequence of transaction hashes (one per trace, in trace
\* order; a trace is identified by its position). A log list is a sequence of
\* transaction hashes (one per log, in log_index order).
Hashes == {"h1", "h2"}

\* a receipt, whose gas_used is an Option (<<>> is None, <<g>> is Some(g)),
\* and a transaction of the block body
Receipt(h, gas_used) == [transaction_hash |-> h, gas_used |-> gas_used]

BodyTransaction(h, gas_price) == [hash |-> h, gas_price |-> gas_price]

\* the blocks the stream is run over: an empty block; a block of one
\* transaction with its receipt and body transaction; a block of two
\* transactions with several traces and logs, where h1 has a receipt without
\* gas_used and no body transaction and h2 has a body transaction and no
\* receipt
BlockData ==
  { [traces |-> <<>>, logs |-> <<>>, receipts |-> <<>>, transactions |-> <<>>],
    [traces |-> <<"h1">>, logs |-> <<"h1">>,
     receipts |-> <<Receipt("h1", <<21>>)>>,
     transactions |-> <<BodyTransaction("h1", 7)>>],
    [traces |-> <<"h1", "h1", "h2">>, logs |-> <<"h2", "h1", "h2">>,
     receipts |-> <<Receipt("h1", <<>>)>>,
     transactions |-> <<BodyTransaction("h2", 9)>>] }

\* every block of at most MaxTraces traces and MaxLogs logs, in any arrangement
AllBlockData ==
  [traces : UNION { [1..n -> Hashes] : n \in 0..MaxTraces },
   logs   : UNION { [1..n -> Hashes] : n \in 0..MaxLogs },
   receipts : {<<>>}, transactions : {<<>>}]

VARIABLES
  max,                  \* BatchEvaluator.max
  chain,                \* block number -> BlockData held by the node
  block_infos,          \* BatchEvaluator.block_infos: the buffer_unordered stream
  evaluations_queue,    \* BatchEvaluator.evaluations_queue (FuturesUnordered)
  waiting_inspections,  \* BatchEvaluator.waiting_inspections (VecDeque)
  blocks_done,          \* BatchEvaluator.blocks_done
  emitted,              \* bag of the items poll_next has returned so far
  poll_result,          \* what the last poll_next returned
  woken,                \* the driver's task has been woken (it polls when woken)
  placed,               \* the transactions the last poll_next moved, in order, and where to
  pulled,               \* the block results the last poll_next took from the fetch stage
  registered,           \* the sub-streams that returned Pending to the last poll_next
  promised,             \* the most that items emitted + size_hint's lower bound has been
  materialized,         \* block number -> the TransactionData built from it
  fetch_result,         \* block number -> outcome of its get_block_info
  eval_failed,          \* transactions whose Evaluation::new failed
  inspection,           \* the Inspection an inspector pass works on
  inspection0,          \* that Inspection as it was handed to the pass
  pass_done,            \* the inspector pass has run
  inspector,            \* the inspector whose pass is examined
  inspectors,           \* BatchInspector.inspectors: the registered decoders
  reducers              \* BatchInspector.reducers

batchVars == <<max, chain, block_infos, evaluations_queue, waiting_inspections,
               blocks_done, emitted, poll_result, woken, placed, pulled,
               registered, promised, materialized, fetch_result,
               eval_failed>>

inspectVars == <<inspection, inspection0, pass_done, inspector, inspectors,
                 reducers>>

vars == <<batchVars, inspectVars>>

\* ------------------------------------------------------------------------
\* Helpers
\* ------------------------------------------------------------------------

Range(s) == { s[i] : i \in DOMAIN s }

RECURSIVE SeqSum(_)
SeqSum(s) == IF s = <<>> THEN 0 ELSE Head(s) + SeqSum(Tail(s))

\* the positions of `s` whose element is `h`, in order
RECURSIVE PositionsOf(_, _, _)
PositionsOf(s, h, i) ==
  IF i > Len(s) THEN <<>>
  ELSE IF s[i] = h THEN <<i>> \o PositionsOf(s, h, i + 1)
       ELSE PositionsOf(s, h, i + 1)

\* ------------------------------------------------------------------------
\* Stage A: get_block_info and the buffer_unordered(max) stream of them
\* ------------------------------------------------------------------------

NoData ==
  [traces |-> <<>>, logs |-> <<>>, receipts |-> <<>>, transactions |-> <<>>]

BlockOk(b, data)  == [kind |-> "Ok",       block_number |-> b, data |-> data]
BlockError(b)     == [kind |-> "Block",    block_number |-> b, data |-> NoData]
BlockNotFound(b)  == [kind |-> "NotFound", block_number |-> b, data |-> NoData]

\* The outcomes of the four remote calls of one get_block_info.
RpcOutcome  == {"ok", "err"}
BlockOutcome == {"some", "none", "err"}

\* get_block_info: try_join! of the four calls. Every failing call maps its
\* error to Block{block_number}; a missing block maps to NotFound. try_join!
\* yields the first error it sees, so with several failures the result is any
\* one of them.
\* faulty variant: a missing block is not turned into an error
GetBlockInfoMissingAsOk(b, tr, bl, rc, lg) ==
  IF "err" \in {tr, bl, rc, lg} THEN {BlockError(b)} ELSE {BlockOk(b, chain[b])}

get_block_info(b, tr, bl, rc, lg) ==
  LET errs == (IF "err" \in {tr, bl, rc, lg} THEN {BlockError(b)} ELSE {})
              \cup (IF bl = "none" THEN {BlockNotFound(b)} ELSE {})
  IN  IF errs = {} THEN {BlockOk(b, chain[b])} ELSE errs

\* what get_block_info(b) can return, over every outcome of its remote calls
FetchOutcomes(b) ==
  UNION { get_block_info(b, tr, bl, rc, lg) :
            tr \in RpcOutcome, bl \in BlockOutcome,
            rc \in RpcOutcome, lg \in RpcOutcome }

\* in_progress_queue.len() of the buffer_unordered stream: futures started and
\* not yet yielded, completed or not
InProgressLen(bi) == Cardinality(bi.pending) + Len(bi.ready)

\* faulty variant: every fetch of the range is started at once, whatever max is
RECURSIVE FillInProgressUnbounded(_)
FillInProgressUnbounded(bi) ==
  IF bi.done \/ bi.iter = <<>>
  THEN [bi EXCEPT !.done = TRUE]
  ELSE FillInProgressUnbounded([bi EXCEPT !.iter = Tail(@),
                                          !.pending = @ \cup {Head(bi.iter)}])

\* buffer_unordered: start futures from the iterator while fewer than max are
\* in progress; the fused iterator is marked done when it is found exhausted
RECURSIVE FillInProgress(_)
FillInProgress(bi) ==
  IF InProgressLen(bi) < max
  THEN IF bi.done \/ bi.iter = <<>>
       THEN [bi EXCEPT !.done = TRUE]
       ELSE FillInProgress([bi EXCEPT !.iter = Tail(@),
                                      !.pending = @ \cup {Head(bi.iter)}])
  ELSE bi

StreamPending == [kind |-> "Pending", block_number |-> 0, data |-> NoData]
StreamNone    == [kind |-> "None",    block_number |-> 0, data |-> NoData]

\* block_infos.poll_next: fill, then yield the first completed fetch; None
\* once nothing is in progress and the iterator is done
BlockInfosPoll(bi) ==
  LET f == FillInProgress(bi)
  IN  IF f.ready # <<>>
      THEN [bi |-> [f EXCEPT !.ready = Tail(@)], out |-> Head(f.ready)]
      ELSE IF f.pending # {}
           THEN [bi |-> f, out |-> StreamPending]
           ELSE [bi |-> f, out |-> IF f.done THEN StreamNone ELSE StreamPending]

\* BatchEvaluator::new: nothing is started, the fetches are lazy
\* block_infos.size_hint().0: the blocks not yet started (none once the
\* fused iterator is done) plus the fetches in progress
BlocksSizeHint(bi) ==
  (IF bi.done THEN 0 ELSE Len(bi.iter)) + InProgressLen(bi)

NewBlockInfos(n) ==
  [iter |-> [i \in 1..n |-> i], done |-> FALSE, pending |-> {}, ready |-> <<>>]

\* ------------------------------------------------------------------------
\* Stage B: group a block's traces and logs into TransactionData
\* ------------------------------------------------------------------------

\* itertools group_by: maximal runs of consecutive traces with the same hash
RECURSIVE GroupBy(_, _, _)
GroupBy(traces, i, acc) ==
  IF i > Len(traces) THEN acc
  ELSE IF acc # <<>> /\ acc[Len(acc)].hash = traces[i]
       THEN GroupBy(traces, i + 1,
                    [acc EXCEPT ![Len(acc)].traces = Append(@, i)])
       ELSE GroupBy(traces, i + 1,
                    Append(acc, [hash |-> traces[i], traces |-> <<i>>]))

\* all_tx_logs.remove(&tx).unwrap_or_default(): the logs of a hash go to the
\* first group of that hash; the map no longer holds them afterwards
TxLogs(groups, k, logs) ==
  IF \E j \in 1..(k - 1) : groups[j].hash = groups[k].hash
  THEN <<>>
  ELSE PositionsOf(logs, groups[k].hash, 1)

\* the entry a HashMap collected from a list keeps for a key: the last one
LastIndex(keys, h) ==
  LET hits == { i \in DOMAIN keys : keys[i] = h }
  IN  CHOOSE i \in hits : \A j \in hits : j <= i

\* gas_used_txs: receipt.transaction_hash -> receipt.gas_used.unwrap_or_default()
gas_used_txs(data) ==
  LET keys == [i \in DOMAIN data.receipts |-> data.receipts[i].transaction_hash]
  IN  [h \in Range(keys) |->
         LET g == data.receipts[LastIndex(keys, h)].gas_used
         IN  IF g = <<>> THEN 0 ELSE g[1]]

\* faulty variant: the gas prices are read from the receipts
GasPriceFromReceipts(data) == gas_used_txs(data)

\* gas_price_txs: tx.hash -> tx.gas_price over the block's transactions
gas_price_txs(data) ==
  LET keys == [i \in DOMAIN data.transactions |-> data.transactions[i].hash]
  IN  [h \in Range(keys) |->
         data.transactions[LastIndex(keys, h)].gas_price]

\* map.get(&tx.hash).cloned().unwrap_or_default()
GetOrDefault(map, h) == IF h \in DOMAIN map THEN map[h] ELSE 0

\* the tuple (tx, gas_used, gas_price) that is queued for evaluation
Queued(tx, gas_used, gas_price) ==
  [block_number |-> tx.block_number, hash |-> tx.hash, traces |-> tx.traces,
   logs |-> tx.logs, calls |-> tx.calls, passes |-> tx.passes,
   gas_used |-> gas_used, gas_price |-> gas_price]

\* the TransactionData built from one fetched block, in iteration order
Materialize(b, data) ==
  LET groups == GroupBy(data.traces, 1, <<>>)
  IN  [k \in 1..Len(groups) |->
         [block_number |-> b,
          hash         |-> groups[k].hash,
          traces       |-> groups[k].traces,
          logs         |-> TxLogs(groups, k, data.logs),
          calls        |-> <<>>,
          passes       |-> <<>>]]

\* ------------------------------------------------------------------------
\* The inspector and reducer passes over one transaction
\* ------------------------------------------------------------------------

\* A call's input is modelled by the function it encodes (its selector and
\* argument layout): decoding it as a function succeeds exactly when the
\* input encodes that function.
Decodes(function, input) == input = function

\* the registered decoders: Balancer, Compound, and a further implementor of
\* the trait that decodes the same pool functions as Balancer and keeps the
\* trait's default is_protocol
DecoderTags == {"Balancer", "Compound", "BalancerFork"}

\* is_protocol: Balancer answers Some(to == BALANCER_PROXY), the trait's
\* default is None
IsProtocol(d, to) ==
  IF d = "Balancer"
  THEN IF to = "BALANCER_PROXY" THEN "Some(true)" ELSE "Some(false)"
  ELSE "None"

\* classify_call: the classification the decoder gives the call, or None
ClassifyCall(d, call) ==
  IF d \in {"Balancer", "BalancerFork"}
  THEN IF \/ Decodes("swapExactAmountIn", call.input)
          \/ Decodes("swapExactAmountOut", call.input)
       THEN "Swap" ELSE "None"
  ELSE IF \/ Decodes("cEther.liquidateBorrow", call.input)
          \/ Decodes("cToken.liquidateBorrow", call.input)
       THEN "Liquidation" ELSE "None"

\* faulty variant: every call is handed to the decoder again
CallsMutAll(tx) == DOMAIN tx.calls

\* tx.calls_mut(): the calls that are not processed yet
calls_mut(tx) ==
  { c \in DOMAIN tx.calls : tx.calls[c].classification = "Unknown" }

\* faulty variant: unwrap_or(false), an undetermined address is skipped
ShouldClassifyUnlessNone(d, call) == IsProtocol(d, call.to) = "Some(true)"

\* is_protocol(&call.to).unwrap_or(true)
ShouldClassify(d, call) == IsProtocol(d, call.to) # "Some(false)"

\* DefiProtocol::inspect: the decoder's pass over the calls of a transaction
DefiProtocolInspect(d, tx) ==
  [tx EXCEPT
     !.calls = [c \in DOMAIN tx.calls |->
                  IF /\ c \in calls_mut(tx)
                     /\ ShouldClassify(d, tx.calls[c])
                     /\ ClassifyCall(d, tx.calls[c]) # "None"
                  THEN [tx.calls[c] EXCEPT
                          !.protocol = d,
                          !.classification = ClassifyCall(d, tx.calls[c])]
                  ELSE tx.calls[c]],
     !.passes = Append(@, <<"inspect", d>>)]

\* faulty variant: the decoders run in reverse registration order
RECURSIVE InspectTxReversed(_, _)
InspectTxReversed(ds, tx) ==
  IF ds = <<>> THEN tx
  ELSE DefiProtocolInspect(Head(ds), InspectTxReversed(Tail(ds), tx))

\* BatchInspector::inspect_tx: every decoder of ds in turn
RECURSIVE inspect_tx(_, _)
inspect_tx(ds, tx) ==
  IF ds = <<>> THEN tx
  ELSE inspect_tx(Tail(ds), DefiProtocolInspect(Head(ds), tx))

\* BatchInspector::reduce_tx: every reducer of rs in turn; what a reducer
\* does to the actions is not modelled, only that it ran
RECURSIVE reduce_tx(_, _)
reduce_tx(rs, tx) ==
  IF rs = <<>> THEN tx
  ELSE reduce_tx(Tail(rs),
                 [tx EXCEPT !.passes = Append(@, <<"reduce", Head(rs)>>)])

\* ------------------------------------------------------------------------
\* Stage C: the evaluation pool and the waiting queue
\* ------------------------------------------------------------------------

NoTx == [block_number |-> 0, hash |-> "-", traces |-> <<>>, logs |-> <<>>]

\* Ok(Evaluation): the finished transaction
EvaluationOk(tx) ==
  [kind |-> "Ok", block_number |-> tx.block_number, hash |-> tx.hash, tx |-> tx]

\* faulty variant: the error is built without the transaction's coordinates
EvaluationErrorUntagged(tx) ==
  [kind |-> "Evaluation", block_number |-> 0, hash |-> "-", tx |-> NoTx]

\* queue_in_evaluation's map_err: the error carries the block_number and hash
\* captured from the transaction before it is moved into the future
EvaluationError(tx) ==
  [kind |-> "Evaluation", block_number |-> tx.block_number, hash |-> tx.hash,
   tx |-> NoTx]

\* Err(err) of a failed get_block_info, passed through unchanged
BlockErrorItem(res) ==
  [kind |-> res.kind, block_number |-> res.block_number, hash |-> "-",
   tx |-> NoTx]

\* evaluations_queue.len(): futures in the pool, completed or not
EvalLen(eq) == Cardinality(eq.pending) + Len(eq.ready)

\* faulty variant: off by one: the pool is taken to have room while it holds max
HasRoomOffByOne(eq) == EvalLen(eq) <= max

\* `this.evaluations_queue.len() < this.max`
HasRoom(eq) == EvalLen(eq) < max

\* queue_in_evaluation: push the evaluation future into the pool
queue_in_evaluation(eq, tx) == [eq EXCEPT !.pending = @ \cup {tx}]

\* faulty variant: the waiting queue is popped to the end, and what finds
\* the pool full is dropped
RECURSIVE DrainWaitingDropping(_)
DrainWaitingDropping(s) ==
  IF s.wi = <<>> THEN s
  ELSE IF HasRoom(s.eq)
  THEN DrainWaitingDropping(
         [s EXCEPT !.eq = queue_in_evaluation(@, Head(s.wi)),
                   !.wi = Tail(@),
                   !.placed = Append(@, [tx |-> Head(s.wi),
                                         where |-> "drained",
                                         evals |-> EvalLen(s.eq)])])
  ELSE DrainWaitingDropping([s EXCEPT !.wi = Tail(@)])

\* faulty variant: the waiting queue is popped at the back
RECURSIVE DrainWaitingFromBack(_)
DrainWaitingFromBack(s) ==
  IF HasRoom(s.eq) /\ s.wi # <<>>
  THEN DrainWaitingFromBack(
         [s EXCEPT !.eq = queue_in_evaluation(@, s.wi[Len(s.wi)]),
                   !.wi = SubSeq(@, 1, Len(@) - 1),
                   !.placed = Append(@, [tx |-> s.wi[Len(s.wi)],
                                         where |-> "drained",
                                         evals |-> EvalLen(s.eq)])])
  ELSE s

\* the lower bound of BatchEvaluator::size_hint
size_hint(bi, eq, wi) == BlocksSizeHint(bi) + EvalLen(eq) + Len(wi)

\* first loop of poll_next: queue in buffered evaluation jobs
RECURSIVE DrainWaiting(_)
DrainWaiting(s) ==
  IF HasRoom(s.eq) /\ s.wi # <<>>
  THEN DrainWaiting([s EXCEPT !.eq = queue_in_evaluation(@, Head(s.wi)),
                              !.wi = Tail(@),
                              !.placed = Append(@, [tx |-> Head(s.wi),
                                                    where |-> "drained",
                                                    evals |-> EvalLen(s.eq)])])
  ELSE s

\* faulty variant: a transaction that finds the pool full is dropped
PlaceDropWhenFull(s, tx) ==
  IF HasRoom(s.eq)
  THEN [s EXCEPT !.eq = queue_in_evaluation(@, tx),
                 !.placed = Append(@, [tx |-> tx, where |-> "pool",
                                       evals |-> EvalLen(s.eq)])]
  ELSE s

\* the pool if it has room, the back of the waiting queue otherwise
Place(s, tx) ==
  IF HasRoom(s.eq)
  THEN [s EXCEPT !.eq = queue_in_evaluation(@, tx),
                 !.placed = Append(@, [tx |-> tx, where |-> "pool",
                                       evals |-> EvalLen(s.eq)])]
  ELSE [s EXCEPT !.wi = Append(@, tx),
                 !.placed = Append(@, [tx |-> tx, where |-> "waiting",
                                       evals |-> EvalLen(s.eq)])]

RECURSIVE PlaceAll(_, _)
PlaceAll(s, txs) ==
  IF txs = <<>> THEN s ELSE PlaceAll(Place(s, Head(txs)), Tail(txs))

\* the Ok arm of the fetch loop: build the block's transactions and place them
ProcessBlock(s, res) ==
  LET created == Materialize(res.block_number, res.data)
      txs == [k \in DOMAIN created |->
                Queued(reduce_tx(s.reducers,
                                 inspect_tx(s.inspectors, created[k])),
                       GetOrDefault(gas_used_txs(res.data), created[k].hash),
                       GetOrDefault(gas_price_txs(res.data), created[k].hash))]
  IN  PlaceAll([s EXCEPT !.mat = @ @@ (res.block_number :> txs)], txs)

NoItem == [kind |-> "-", block_number |-> 0, hash |-> "-", tx |-> NoTx]

Continue    == [kind |-> "Continue", item |-> NoItem]
PollPending == [kind |-> "Pending",  item |-> NoItem]
PollEnd     == [kind |-> "End",      item |-> NoItem]
PollItem(i) == [kind |-> "Item",     item |-> i]

\* faulty variant: a failed fetch ends the fetch stage
OnBlockErrorAbort(s, res) ==
  [s |-> [s EXCEPT !.bd = TRUE], ret |-> PollItem(BlockErrorItem(res))]

\* faulty variant: a failed fetch discards what is queued
OnBlockErrorDiscarding(s, res) ==
  [s |-> [s EXCEPT !.eq = [pending |-> {}, ready |-> <<>>], !.wi = <<>>],
   ret |-> PollItem(BlockErrorItem(res))]

\* the Err arm of the fetch loop: return the error as an item, touch nothing
OnBlockError(s, res) == [s |-> s, ret |-> PollItem(BlockErrorItem(res))]

\* faulty variant: block results are pulled whether the pool has room or not
RECURSIVE PullBlocksRegardless(_)
PullBlocksRegardless(s) ==
  LET r  == BlockInfosPoll(s.bi)
      s0 == [s EXCEPT !.bi = r.bi]
      s1 == IF r.out.kind \in {"Pending", "None"} THEN s0
            ELSE [s0 EXCEPT !.pulled =
                    Append(@, [block_number |-> r.out.block_number,
                               kind |-> r.out.kind,
                               evals |-> EvalLen(s.eq),
                               waiting |-> Len(s.wi)])]
  IN  CASE r.out.kind = "Ok"      -> PullBlocksRegardless(ProcessBlock(s1, r.out))
        [] r.out.kind = "Pending" ->
             [s |-> [s1 EXCEPT !.registered = @ \cup {"block_infos"}],
              ret |-> Continue]
        [] r.out.kind = "None"    ->
             [s |-> [s1 EXCEPT !.bd = TRUE], ret |-> Continue]
        [] OTHER -> OnBlockError(s1, r.out)

\* second loop of poll_next: pull block results while the pool has room
RECURSIVE PullBlocks(_)
PullBlocks(s) ==
  IF ~HasRoom(s.eq) THEN [s |-> s, ret |-> Continue]
  ELSE LET r  == BlockInfosPoll(s.bi)
           s0 == [s EXCEPT !.bi = r.bi]
           s1 == IF r.out.kind \in {"Pending", "None"} THEN s0
                 ELSE [s0 EXCEPT !.pulled =
                         Append(@, [block_number |-> r.out.block_number,
                                    kind |-> r.out.kind,
                                    evals |-> EvalLen(s.eq),
                                    waiting |-> Len(s.wi)])]
       IN  CASE r.out.kind = "Ok"      -> PullBlocks(ProcessBlock(s1, r.out))
             [] r.out.kind = "Pending" ->
                  [s |-> [s1 EXCEPT !.registered = @ \cup {"block_infos"}],
                   ret |-> Continue]
             [] r.out.kind = "None"    ->
                  [s |-> [s1 EXCEPT !.bd = TRUE], ret |-> Continue]
             [] OTHER -> OnBlockError(s1, r.out)

\* evaluations_queue.poll_next_unpin
PollEvaluations(eq) ==
  IF eq.ready # <<>>
  THEN [eq |-> [eq EXCEPT !.ready = Tail(@)], out |-> PollItem(Head(eq.ready))]
  ELSE IF eq.pending # {}
       THEN [eq |-> eq, out |-> PollPending]
       ELSE [eq |-> eq, out |-> Continue]

\* faulty variant: the closing test forgets blocks_done
BatchDoneIgnoringBlocks(s) == EvalLen(s.eq) = 0 /\ s.wi = <<>>

\* the closing test of poll_next
BatchDone(s) == s.bd /\ EvalLen(s.eq) = 0 /\ s.wi = <<>>

\* one whole call of poll_next
PollNext(s) ==
  LET p == PullBlocks(DrainWaiting(s))
  IN  IF p.ret.kind = "Item" THEN [s |-> p.s, out |-> p.ret]
      ELSE LET e  == PollEvaluations(p.s.eq)
               s2 == [p.s EXCEPT
                        !.eq = e.eq,
                        !.registered = IF e.out.kind = "Pending"
                                       THEN @ \cup {"evaluations_queue"}
                                       ELSE @]
           IN  IF e.out.kind # "Continue" THEN [s |-> s2, out |-> e.out]
               ELSE [s |-> s2,
                     out |-> IF BatchDone(s2) THEN PollEnd ELSE PollPending]

\* ------------------------------------------------------------------------
\* The state machine of the batch stream
\* ------------------------------------------------------------------------

Blocks == DOMAIN chain

NoInspection == [actions |-> <<>>, status |-> "Success", protocols |-> {}]

\* no inspector pass is under examination
InspectIdle ==
  /\ inspection = NoInspection
  /\ inspection0 = NoInspection
  /\ pass_done = FALSE
  /\ inspector = "-"

\* BatchInspector::new with two decoders and two reducers registered
NewBatchInspector ==
  /\ inspectors = <<"Balancer", "Compound">>
  /\ reducers = <<"TradeReducer", "ArbitrageReducer">>

\* the fields of a BatchEvaluator built over the blocks of `chain`
BatchEvaluatorFields ==
  /\ block_infos = NewBlockInfos(Len(chain))
  /\ evaluations_queue = [pending |-> {}, ready |-> <<>>]
  /\ waiting_inspections = <<>>
  /\ blocks_done = FALSE
  /\ emitted = EmptyBag
  /\ poll_result = "none"
  /\ woken = TRUE
  /\ placed = <<>>
  /\ pulled = <<>>
  /\ registered = {}
  /\ promised = Len(chain)
  /\ materialized = <<>>
  /\ fetch_result = [b \in Blocks |-> "none"]
  /\ eval_failed = {}

\* BatchEvaluator::new
NewBatchEvaluator ==
  /\ NewBatchInspector
  /\ BatchEvaluatorFields

Init ==
  /\ max \in 0..MaxCap
  /\ \E n \in 0..MaxBlocks : chain \in [1..n -> BlockData]
  /\ NewBatchEvaluator
  /\ InspectIdle

\* The driver polls the stream: first of all, and then whenever it was woken
\* or the previous poll returned an item. It stops at end-of-stream.
poll_next ==
  /\ woken
  /\ poll_result # "end"
  /\ \E r \in {PollNext([bi |-> block_infos, eq |-> evaluations_queue,
                        wi |-> waiting_inspections, bd |-> blocks_done,
                        placed |-> <<>>, pulled |-> <<>>,
                        registered |-> {},
                        mat |-> materialized,
                        inspectors |-> inspectors, reducers |-> reducers])} :
         /\ block_infos' = r.s.bi
         /\ evaluations_queue' = r.s.eq
         /\ waiting_inspections' = r.s.wi
         /\ blocks_done' = r.s.bd
         /\ placed' = r.s.placed
         /\ pulled' = r.s.pulled
         /\ registered' = r.s.registered
         /\ materialized' = r.s.mat
         /\ emitted' = IF r.out.kind = "Item"
                       THEN emitted (+) SetToBag({r.out.item})
                       ELSE emitted
         /\ poll_result' = CASE r.out.kind = "Item" -> "item"
                             [] r.out.kind = "End"  -> "end"
                             [] OTHER               -> "pending"
         /\ woken' = (r.out.kind = "Item")
         /\ promised' =
              LET now == BagCardinality(emitted)
                           + (IF r.out.kind = "Item" THEN 1 ELSE 0)
                           + size_hint(r.s.bi, r.s.eq, r.s.wi)
              IN  IF now > promised THEN now ELSE promised
  /\ UNCHANGED <<max, chain, fetch_result, eval_failed, inspectVars>>

\* A started get_block_info completes with the outcomes of its remote calls
\* and wakes the driver.
FetchComplete(b) ==
  /\ b \in block_infos.pending
  /\ \E res \in FetchOutcomes(b) :
       /\ block_infos' = [block_infos EXCEPT !.pending = @ \ {b},
                                             !.ready = Append(@, res)]
       /\ fetch_result' = [fetch_result EXCEPT ![b] = res.kind]
  /\ woken' = TRUE
  /\ UNCHANGED <<max, chain, evaluations_queue, waiting_inspections,
                 blocks_done, emitted, poll_result, placed, pulled,
                 registered, promised, materialized, eval_failed,
                 inspectVars>>

\* An evaluation in the pool completes, successfully or not, and wakes the
\* driver.
EvalComplete(tx) ==
  /\ tx \in evaluations_queue.pending
  /\ \E ok \in BOOLEAN :
       /\ evaluations_queue' =
            [evaluations_queue EXCEPT
               !.pending = @ \ {tx},
               !.ready = Append(@, IF ok THEN EvaluationOk(tx)
                                         ELSE EvaluationError(tx))]
       /\ eval_failed' = IF ok THEN eval_failed ELSE eval_failed \cup {tx}
  /\ woken' = TRUE
  /\ UNCHANGED <<max, chain, block_infos, waiting_inspections, blocks_done,
                 emitted, poll_result, placed, pulled, registered, promised,
                 materialized, fetch_result, inspectVars>>

Next ==
  \/ poll_next
  \/ \E b \in Blocks : FetchComplete(b)
  \/ \E tx \in evaluations_queue.pending : EvalComplete(tx)

Spec == Init /\ [][Next]_vars

\* ------------------------------------------------------------------------
\* Stage B on its own: the grouping applied to one block of any arrangement
\* ------------------------------------------------------------------------

InitGroup ==
  /\ max = 1
  /\ \E d \in AllBlockData : chain = <<d>>
  /\ NewBatchEvaluator
  /\ InspectIdle

\* the block's data arrives and its transactions are built
MaterializeBlock ==
  /\ materialized = <<>>
  /\ materialized' = (1 :> Materialize(1, chain[1]))
  /\ fetch_result' = [fetch_result EXCEPT ![1] = "Ok"]
  /\ UNCHANGED <<max, chain, block_infos, evaluations_queue,
                 waiting_inspections, blocks_done, emitted, poll_result,
                 woken, placed, pulled, registered, promised, eval_failed,
                 inspectVars>>

NextGroup == MaterializeBlock

SpecGroup == InitGroup /\ [][NextGroup]_vars

\* ------------------------------------------------------------------------
\* Vocabulary of the properties
\* ------------------------------------------------------------------------

\* the part of the bag of emitted items whose items satisfy P
EmittedCount(P(_)) ==
  BagCardinality([i \in {j \in DOMAIN emitted : P(j)} |-> emitted[i]])

FetchFailed(b) == fetch_result[b] \in {"Block", "NotFound"}

\* number of Err items emitted for the fetch of block b
BlockErrItems(b) ==
  LET P(i) == i.kind \in {"Block", "NotFound"} /\ i.block_number = b
  IN  EmittedCount(P)

\* number of items (Ok or Err) emitted for transactions (b, h)
TxItems(b, h) ==
  LET P(i) == /\ i.kind \in {"Ok", "Evaluation"}
              /\ i.block_number = b /\ i.hash = h
  IN  EmittedCount(P)

\* number of Err(Evaluation{b, h}) items emitted
EvalErrItems(b, h) ==
  LET P(i) == i.kind = "Evaluation" /\ i.block_number = b /\ i.hash = h
  IN  EmittedCount(P)

\* the transactions built so far, over all fetched blocks
AllMaterialized ==
  UNION { Range(materialized[b]) : b \in DOMAIN materialized }

\* every transaction built from block b has been emitted as an item
BlockEmitted(b) ==
  \A h \in Hashes :
    TxItems(b, h) = Cardinality({k \in DOMAIN materialized[b] :
                                   materialized[b][k].hash = h})

\* txs are the transactions created from a block, whatever passes have run
\* on them since
BuiltFrom(txs, created) ==
  /\ Len(txs) = Len(created)
  /\ \A k \in DOMAIN created :
       /\ txs[k].block_number = created[k].block_number
       /\ txs[k].hash = created[k].hash
       /\ txs[k].traces = created[k].traces
       /\ txs[k].logs = created[k].logs

AllMaterializedEmitted == \A b \in DOMAIN materialized : BlockEmitted(b)

\* the number of transactions a block holds: the distinct hashes of its traces
NumTransactions(data) == Cardinality(Range(data.traces))

\* ------------------------------------------------------------------------
\* Properties of the batch stream
\* ------------------------------------------------------------------------

\* C1: in every reachable state the evaluations in the pool plus the fetches
\* in flight number at most 2 * max, and the fetches in flight alone at most
\* max.
C1_Backpressure ==
  /\ EvalLen(evaluations_queue) + InProgressLen(block_infos) <= 2 * max
  /\ InProgressLen(block_infos) <= max

\* the pool is full while a fetch is in flight, and max fetches have been in
\* flight at once
C1_Witness ==
  /\ max = 2
  /\ EvalLen(evaluations_queue) = max
  /\ InProgressLen(block_infos) >= 1
  /\ Cardinality({b \in Blocks : fetch_result[b] # "none"}) >= 1

\* C2: the pool never holds more than max evaluations, and poll_next puts a
\* classified transaction in the waiting queue exactly when the pool holds
\* max evaluations at that moment; otherwise it goes straight into the pool.
C2_PoolBound ==
  /\ EvalLen(evaluations_queue) <= max
  /\ \A i \in DOMAIN placed :
       (placed[i].where = "waiting") <=> (placed[i].evals = max)

\* one poll put a transaction in the pool and the next one in the queue
C2_Witness ==
  /\ max >= 1
  /\ \E i, j \in DOMAIN placed :
       placed[i].where = "pool" /\ placed[j].where = "waiting"

\* C3 (as stated): once the stream is drained, the number of items emitted
\* equals the number of transactions in the blocks of the range.
C3_ItemsEqualTransactions ==
  poll_result = "end" =>
    BagCardinality(emitted) =
      SeqSum([b \in 1..Len(chain) |-> NumTransactions(chain[b])])

\* C3 (amended): once the stream is drained, the number of items emitted
\* equals the number of TransactionData built from the blocks whose fetch
\* succeeded plus one per block whose fetch failed.
C3_ItemsEqualMaterializedPlusFailures ==
  poll_result = "end" =>
    BagCardinality(emitted) =
      SeqSum([b \in 1..Len(chain) |->
                IF FetchFailed(b) THEN 1
                ELSE Len(Materialize(b, chain[b]))])

\* a drained stream over a failed block and a block of several transactions
C3_Witness ==
  /\ poll_result = "end"
  /\ \E b \in Blocks : FetchFailed(b)
  /\ \E b \in Blocks : ~FetchFailed(b) /\ Len(Materialize(b, chain[b])) >= 2

\* C4: poll_next returns end-of-stream only when the fetch stage is exhausted
\* (blocks_done, no block unstarted or in flight), the pool is empty and the
\* waiting queue is empty, with every transaction built so far emitted.
C4_EndOnlyWhenDrained ==
  poll_result = "end" =>
    /\ blocks_done
    /\ EvalLen(evaluations_queue) = 0
    /\ waiting_inspections = <<>>
    /\ block_infos.iter = <<>>
    /\ InProgressLen(block_infos) = 0
    /\ \A b \in Blocks : fetch_result[b] # "none"
    /\ AllMaterializedEmitted

\* the stream ended after two blocks and some emitted transaction
C4_Witness ==
  /\ poll_result = "end"
  /\ Len(chain) >= 2
  /\ \E i \in DOMAIN emitted : i.kind = "Ok"

\* a step is still to come: the driver has been woken and will poll, or a
\* started fetch or a queued evaluation is running and will wake it
ProgressPossible ==
  \/ woken /\ poll_result # "end"
  \/ block_infos.pending # {}
  \/ evaluations_queue.pending # {}

\* C5: with every fetch and evaluation completing and the driver polling when
\* woken, the stream reaches end-of-stream with every transaction built from a
\* fetched block emitted. Every step of the stream consumes something (a wake,
\* a running future), so the stream gets there exactly if it never comes to
\* rest anywhere else.
C5_DrainsToEnd ==
  (poll_result = "end" /\ AllMaterializedEmitted) \/ ProgressPossible

\* (C5, C9 with a cap of at least one: the stream never comes to rest before
\* its end, and the empty range ends at the first poll)
DrainsToEndWithCap == max >= 1 => C5_DrainsToEnd

\* C6: a failed fetch of block N yields exactly one Err item for N (and a
\* fetch that has not failed yields none), and the stream does not end before
\* every block of the range was fetched and every transaction of the blocks
\* that were fetched was emitted.
C6_FetchErrorIsolated ==
  /\ \A b \in Blocks :
       BlockErrItems(b) <= (IF FetchFailed(b) THEN 1 ELSE 0)
  /\ poll_result = "end" =>
       \A b \in Blocks :
         /\ fetch_result[b] # "none"
         /\ FetchFailed(b) => BlockErrItems(b) = 1
         /\ ~FetchFailed(b) =>
              /\ b \in DOMAIN materialized
              /\ BuiltFrom(materialized[b], Materialize(b, chain[b]))
              /\ BlockEmitted(b)

\* the stream ended with one block failed and the other block's transactions
\* emitted
C6_Witness ==
  /\ poll_result = "end"
  /\ \E b, c \in Blocks :
       /\ FetchFailed(b) /\ BlockErrItems(b) = 1
       /\ ~FetchFailed(c) /\ Len(materialized[c]) >= 1 /\ BlockEmitted(c)

\* C7: every Err(Evaluation) item carries the block_number and hash of a
\* transaction whose evaluation failed, at most one per failed transaction,
\* and once the stream has ended every failed transaction has its one Err item
\* and every other transaction its own Ok item.
C7_EvalErrorIsolated ==
  /\ \A i \in DOMAIN emitted :
       i.kind = "Evaluation" =>
         EvalErrItems(i.block_number, i.hash) <=
           Cardinality({t \in eval_failed : /\ t.block_number = i.block_number
                                            /\ t.hash = i.hash})
  /\ poll_result = "end" =>
       \A t \in AllMaterialized :
         /\ t \in eval_failed =>
              EvalErrItems(t.block_number, t.hash) =
                Cardinality({u \in eval_failed :
                               /\ u.block_number = t.block_number
                               /\ u.hash = t.hash})
         /\ t \notin eval_failed => CopiesIn(EvaluationOk(t), emitted) = 1

\* the stream ended with a failed transaction and an evaluated sibling of the
\* same block
C7_Witness ==
  /\ poll_result = "end"
  /\ \E t, u \in AllMaterialized :
       /\ t.block_number = u.block_number /\ t.hash # u.hash
       /\ t \in eval_failed /\ EvalErrItems(t.block_number, t.hash) = 1
       /\ u \notin eval_failed /\ CopiesIn(EvaluationOk(u), emitted) = 1

\* C8: a fetched block yields exactly one TransactionData per distinct hash of
\* its traces, holding all the traces of that hash in trace order and exactly
\* the logs of that hash.
C8_OneTransactionPerHash ==
  \A b \in DOMAIN materialized :
    LET txs == materialized[b] IN
    /\ \A k \in DOMAIN txs : txs[k].hash \in Range(chain[b].traces)
    /\ \A h \in Range(chain[b].traces) :
         /\ Cardinality({k \in DOMAIN txs : txs[k].hash = h}) = 1
         /\ \A k \in DOMAIN txs :
              txs[k].hash = h =>
                /\ txs[k].traces = PositionsOf(chain[b].traces, h, 1)
                /\ txs[k].logs = PositionsOf(chain[b].logs, h, 1)

\* C9: over the empty range the stream ends at once: a poll returns
\* end-of-stream, never Pending, and nothing is emitted.
C9_EmptyRangeEnds ==
  (chain = <<>> /\ poll_result # "none") =>
     (poll_result = "end" /\ emitted = EmptyBag)

EmptyRangeEndsWithCap == max >= 1 => C9_EmptyRangeEnds

\* the traces of every transaction are consecutive in the trace list
Contiguous(traces) ==
  \A i, j \in DOMAIN traces :
    (i < j /\ traces[i] = traces[j]) =>
       \A k \in i..j : traces[k] = traces[i]

\* (C8 for blocks whose traces are contiguous per transaction)
GroupingOfContiguousTraces ==
  (\A b \in DOMAIN chain : Contiguous(chain[b].traces)) =>
     C8_OneTransactionPerHash

\* ------------------------------------------------------------------------
\* The Compound inspector pass (src/inspectors/compound.rs)
\* ------------------------------------------------------------------------

\* Classification::Unknown(calltrace): a call no inspector has classified,
\* with its place in the call tree and the cTokenCollateral and seizeTokens
\* arguments its input carries
CallTrace(trace_address, input, to, call_type, seize_tokens, collateral) ==
  [cls |-> "Unknown", trace_address |-> trace_address, input |-> input,
   to |-> to, call_type |-> call_type, seize_tokens |-> seize_tokens,
   ctoken_collateral |-> collateral, action |-> "-",
   received_amount |-> 0, sent_token |-> "-", received_token |-> "-"]

UnknownCall(input, to, call_type, seize_tokens) ==
  CallTrace(<<>>, input, to, call_type, seize_tokens, "cEther")

\* Classification::new(action, trace): a classified action
Known(action, received_amount) ==
  [cls |-> "Known", trace_address |-> <<>>, input |-> "-", to |-> "-",
   call_type |-> "-", seize_tokens |-> 0, ctoken_collateral |-> "-",
   action |-> action, received_amount |-> received_amount,
   sent_token |-> "-", received_token |-> "-"]

Pruned == Known("Prune", 0)

\* the actions an Inspection handed to the pass can hold
CompoundActions ==
  { UnknownCall("cToken.liquidateBorrow", "cToken", "Call", 0),
    UnknownCall("cEther.liquidateBorrow", "cEther", "Call", 0),
    UnknownCall("cToken.liquidateBorrow", "cToken", "DelegateCall", 0),
    UnknownCall("seize", "cToken", "Call", 5),
    UnknownCall("seizeInternal", "cToken", "Call", 7),
    UnknownCall("liquidateBorrowAllowed", "COMPTROLLER", "Call", 0),
    UnknownCall("getUnderlyingPrice", "COMP_ORACLE", "Call", 0),
    UnknownCall("liquidateBorrowAllowed", "other", "Call", 0),
    UnknownCall("other", "other", "Call", 0),
    Known("Transfer", 0),
    Pruned }

Statuses == {"Success", "Reverted", "Checked"}

\* Classification::as_call: only an Unknown classification is a call
AsCall(a) == a.cls = "Unknown"

\* try_as_liquidation: an unclassified call whose input decodes as the cToken
\* or the cEther liquidateBorrow
IsLiquidation(a) ==
  /\ a.cls = "Unknown"
  /\ \/ Decodes("cToken.liquidateBorrow", a.input)
     \/ Decodes("cEther.liquidateBorrow", a.input)

\* the cToken-to-underlying map the inspector is constructed with: cETH maps
\* to wrapped ether, every other market to its underlying token
ctoken_to_token == ("cToken" :> "Token") @@ ("cEther" :> "WETH")

\* underlying: the mapped token, or the address itself when it is not in the
\* map
underlying(address) ==
  IF address \in DOMAIN ctoken_to_token THEN ctoken_to_token[address]
  ELSE address

\* faulty variant: the collateral is resolved through the map as well
TryAsLiquidationMapped(a) ==
  [sent_token |-> underlying(a.to),
   received_token |-> underlying(a.ctoken_collateral),
   received_amount |-> 0, trace |-> a.trace_address]

\* try_as_liquidation: the Liquidation decoded from a liquidateBorrow call
\* and the call's trace address
try_as_liquidation(a) ==
  [sent_token |-> underlying(a.to), received_token |-> a.ctoken_collateral,
   received_amount |-> 0, trace |-> a.trace_address]

\* try_as_seize: a call whose input decodes as seizeInternal or seize
IsSeize(a) == Decodes("seizeInternal", a.input) \/ Decodes("seize", a.input)

\* is_preflight: the comptroller's liquidateBorrowAllowed or the oracle's
\* getUnderlyingPrice, not yet classified
is_preflight(a) ==
  /\ a.cls = "Unknown"
  /\ \/ a.to = "COMPTROLLER" /\ Decodes("liquidateBorrowAllowed", a.input)
     \/ a.to = "COMP_ORACLE" /\ Decodes("getUnderlyingPrice", a.input)

\* actions_after: the calls among the actions that follow index i
actions_after(actions, i) ==
  SelectSeq(SubSeq(actions, i + 1, Len(actions)), AsCall)

\* subtraces.iter().find_map(try_as_seize): the first seize of the subtraces
FindSeize(subtraces) == SelectSeq(subtraces, IsSeize)

\* faulty variant: the pre-flight sets the status but is not rewritten
MarkCheckedStatusOnly(insp, i) == [insp EXCEPT !.status = "Checked"]

\* the pre-flight arm: the action becomes a LiquidationCheck and the status
\* Checked
MarkChecked(insp, i) ==
  [insp EXCEPT !.actions[i] = Known("LiquidationCheck", 0),
               !.status = "Checked"]

\* the seize arm: the action becomes the Liquidation with the seized amount,
\* and the status Success unless it is Reverted
MarkLiquidated(insp, i, seized) ==
  LET liquidation == [try_as_liquidation(insp.actions[i])
                        EXCEPT !.received_amount = seized.seize_tokens]
  IN  [insp EXCEPT
         !.actions[i] = [Known("Liquidation", liquidation.received_amount)
                           EXCEPT !.sent_token = liquidation.sent_token,
                                  !.received_token = liquidation.received_token,
                                  !.trace_address = liquidation.trace],
         !.status = IF @ # "Reverted" THEN "Success" ELSE @]

\* faulty variant: the protocol is tagged only once the seize is found
RECURSIVE InspectFromTagOnSeize(_, _, _)
InspectFromTagOnSeize(insp, i, found) ==
  IF i > Len(insp.actions) THEN insp
  ELSE
    LET action == insp.actions[i]
        tagged == [insp EXCEPT !.protocols = @ \cup {"Compound"}]
        seizes == FindSeize(actions_after(insp.actions, i))
    IN  IF IsLiquidation(action)
        THEN IF action.call_type # "DelegateCall" /\ seizes # <<>>
             THEN InspectFromTagOnSeize(
                    MarkLiquidated(tagged, i, Head(seizes)), i + 1, TRUE)
             ELSE InspectFromTagOnSeize(insp, i + 1, found)
        ELSE IF is_preflight(action) /\ ~found
             THEN InspectFromTagOnSeize(MarkChecked(insp, i), i + 1, found)
             ELSE InspectFromTagOnSeize(insp, i + 1, found)

\* faulty variant: a liquidateBorrow without a seize counts as found
RECURSIVE InspectFromSeizeOptional(_, _, _)
InspectFromSeizeOptional(insp, i, found) ==
  IF i > Len(insp.actions) THEN insp
  ELSE
    LET action == insp.actions[i]
        tagged == [insp EXCEPT !.protocols = @ \cup {"Compound"}]
        seizes == FindSeize(actions_after(insp.actions, i))
    IN  IF IsLiquidation(action)
        THEN IF action.call_type = "DelegateCall"
             THEN InspectFromSeizeOptional(tagged, i + 1, found)
             ELSE IF seizes # <<>>
                  THEN InspectFromSeizeOptional(
                         MarkLiquidated(tagged, i, Head(seizes)), i + 1, TRUE)
                  ELSE InspectFromSeizeOptional(tagged, i + 1, TRUE)
        ELSE IF is_preflight(action) /\ ~found
             THEN InspectFromSeizeOptional(MarkChecked(insp, i), i + 1, found)
             ELSE InspectFromSeizeOptional(insp, i + 1, found)

\* faulty variant: the pre-flight arm does not look at `found`
RECURSIVE InspectFromIgnoringFound(_, _, _)
InspectFromIgnoringFound(insp, i, found) ==
  IF i > Len(insp.actions) THEN insp
  ELSE
    LET action == insp.actions[i]
        tagged == [insp EXCEPT !.protocols = @ \cup {"Compound"}]
        seizes == FindSeize(actions_after(insp.actions, i))
    IN  IF IsLiquidation(action)
        THEN IF action.call_type # "DelegateCall" /\ seizes # <<>>
             THEN InspectFromIgnoringFound(
                    MarkLiquidated(tagged, i, Head(seizes)), i + 1, TRUE)
             ELSE InspectFromIgnoringFound(tagged, i + 1, found)
        ELSE IF is_preflight(action)
             THEN InspectFromIgnoringFound(MarkChecked(insp, i), i + 1, found)
             ELSE InspectFromIgnoringFound(insp, i + 1, found)

\* the body of the loop of Compound::inspect, from index i on
RECURSIVE InspectFrom(_, _, _)
InspectFrom(insp, i, found) ==
  IF i > Len(insp.actions) THEN insp
  ELSE
    LET action    == insp.actions[i]
        subtraces == actions_after(insp.actions, i)
        tagged    == [insp EXCEPT !.protocols = @ \cup {"Compound"}]
        seizes    == FindSeize(subtraces)
    IN  IF IsLiquidation(action)
        THEN IF action.call_type = "DelegateCall"
             THEN InspectFrom(tagged, i + 1, found)
             ELSE IF seizes # <<>>
                  THEN InspectFrom(MarkLiquidated(tagged, i, Head(seizes)),
                                   i + 1, TRUE)
                  ELSE InspectFrom(tagged, i + 1, found)
        ELSE IF is_preflight(action) /\ ~found
             THEN InspectFrom(MarkChecked(insp, i), i + 1, found)
             ELSE InspectFrom(insp, i + 1, found)

\* Compound::inspect
CompoundInspect(insp) == InspectFrom(insp, 1, FALSE)

InitCompound ==
  /\ max = 1
  /\ chain = <<>>
  /\ NewBatchEvaluator
  /\ \E n \in 0..MaxActions :
       \E acts \in [1..n -> CompoundActions], st \in Statuses,
          ps \in {{}, {"Uniswap"}} :
         inspection0 = [actions |-> acts, status |-> st, protocols |-> ps]
  /\ inspection = inspection0
  /\ pass_done = FALSE
  /\ inspector = "Compound"

\* the pass runs over the inspection
Inspect ==
  /\ inspector = "Compound"
  /\ ~pass_done
  /\ inspection' = CompoundInspect(inspection)
  /\ pass_done' = TRUE
  /\ UNCHANGED <<batchVars, inspection0, inspector, inspectors, reducers>>

NextCompound == Inspect

SpecCompound == InitCompound /\ [][NextCompound]_vars

\* a liquidateBorrow call, not a DelegateCall, with a seize among the calls
\* that follow it
LiquidationFound(actions) ==
  \E i \in DOMAIN actions :
    /\ IsLiquidation(actions[i])
    /\ actions[i].call_type # "DelegateCall"
    /\ FindSeize(actions_after(actions, i)) # <<>>

PreflightSeen(actions) == \E i \in DOMAIN actions : is_preflight(actions[i])

\* the status rule for an inspection that is not Reverted beforehand
StatusRuleUnlessReverted ==
  (pass_done /\ inspection0.status # "Reverted") =>
     IF LiquidationFound(inspection0.actions)
     THEN inspection.status = "Success"
     ELSE IF PreflightSeen(inspection0.actions)
          THEN inspection.status = "Checked"
          ELSE inspection.status = inspection0.status

\* C10: after the pass, an inspection that was Reverted is still Reverted,
\* whatever the sequence holds; otherwise the status is Success if a
\* liquidation with a seize was found and Checked if only pre-flights were
\* seen.
C10_StatusRule ==
  /\ (pass_done /\ inspection0.status = "Reverted") =>
        inspection.status = "Reverted"
  /\ StatusRuleUnlessReverted

\* the action at index j is a liquidateBorrow call, not a DelegateCall, with
\* a seize among the calls that follow it: the pass finds a liquidation there
FoundAt(actions, j) ==
  /\ IsLiquidation(actions[j])
  /\ actions[j].call_type # "DelegateCall"
  /\ FindSeize(actions_after(actions, j)) # <<>>

IsCheck(a) == a.cls = "Known" /\ a.action = "LiquidationCheck"

\* C11: after the pass, a pre-flight call has become a LiquidationCheck
\* exactly when no successful liquidation follows it in the transaction, and
\* when a successful liquidation occurs the final status is Success.
C11_PreflightUnlessFollowed ==
  pass_done =>
    /\ \A i \in DOMAIN inspection0.actions :
         is_preflight(inspection0.actions[i]) =>
           (IsCheck(inspection.actions[i]) <=>
              ~ \E j \in DOMAIN inspection0.actions :
                  j > i /\ FoundAt(inspection0.actions, j))
    /\ LiquidationFound(inspection0.actions) => inspection.status = "Success"

\* C11 (amended): after the pass, a pre-flight call has become a
\* LiquidationCheck exactly when no successful liquidation was found before
\* it in the action list; with pre-flights and no successful liquidation the
\* final status is Checked; with a successful liquidation the final status is
\* never Checked, and it is Success unless the inspection was Reverted.
C11_PreflightUnlessFoundBefore ==
  pass_done =>
    /\ \A i \in DOMAIN inspection0.actions :
         is_preflight(inspection0.actions[i]) =>
           (IsCheck(inspection.actions[i]) <=>
              ~ \E j \in DOMAIN inspection0.actions :
                  j < i /\ FoundAt(inspection0.actions, j))
    /\ (PreflightSeen(inspection0.actions)
          /\ ~LiquidationFound(inspection0.actions)) =>
            inspection.status = "Checked"
    /\ LiquidationFound(inspection0.actions) =>
         /\ inspection.status # "Checked"
         /\ inspection0.status # "Reverted" => inspection.status = "Success"

\* a pre-flight followed by a successful liquidation was rewritten, and a
\* pre-flight after a successful liquidation was not
C11_Witness ==
  /\ pass_done
  /\ Len(inspection0.actions) >= 3
  /\ is_preflight(inspection0.actions[1])
  /\ IsCheck(inspection.actions[1])
  /\ FoundAt(inspection0.actions, 2)
  /\ inspection.status = "Success"

IsLiquidationAction(a) == a.cls = "Known" /\ a.action = "Liquidation"

\* the liquidateBorrow calls of a sequence made via DelegateCall, and the
\* regular ones
DelegateLiquidations(actions) ==
  { i \in DOMAIN actions :
      IsLiquidation(actions[i]) /\ actions[i].call_type = "DelegateCall" }

RegularLiquidations(actions) ==
  { i \in DOMAIN actions :
      IsLiquidation(actions[i]) /\ actions[i].call_type # "DelegateCall" }

LiquidationActions(actions) ==
  { i \in DOMAIN actions : IsLiquidationAction(actions[i]) }

\* a DelegateCall liquidateBorrow is left as it was; with only DelegateCall
\* liquidations and no pre-flight the status is untouched; one delegate and
\* one direct variant followed by a seize give exactly one Liquidation
DelegateCallSkipped ==
  pass_done =>
    LET a0 == inspection0.actions
    IN  /\ \A i \in DelegateLiquidations(a0) :
             inspection.actions[i] = a0[i]
        /\ (RegularLiquidations(a0) = {} /\ ~PreflightSeen(a0)) =>
              inspection.status = inspection0.status
        /\ ( /\ Cardinality(DelegateLiquidations(a0)) = 1
             /\ Cardinality(RegularLiquidations(a0)) = 1
             /\ \A i \in RegularLiquidations(a0) :
                  FindSeize(actions_after(a0, i)) # <<>> ) =>
              Cardinality(LiquidationActions(inspection.actions)) = 1

TracePaths == { <<>>, <<0>>, <<0, 0>>, <<1>>, <<1, 0>> }

\* depth-first pre-order of trace addresses: a caller before its subcalls,
\* siblings by index
RECURSIVE PathBefore(_, _)
PathBefore(a, b) ==
  IF a = <<>> THEN b # <<>>
  ELSE IF b = <<>> THEN FALSE
  ELSE IF Head(a) = Head(b) THEN PathBefore(Tail(a), Tail(b))
  ELSE Head(a) < Head(b)

\* the call at address b is a subcall (descendant) of the call at address a
IsSubcall(a, b) == Len(a) < Len(b) /\ SubSeq(b, 1, Len(a)) = a

\* the calls a liquidating transaction is made of: input, callee, call type,
\* seizeTokens and cTokenCollateral
LiquidationCalls ==
  { <<"cToken.liquidateBorrow", "cToken", "Call", 0, "cToken">>,
    <<"cToken.liquidateBorrow", "cToken", "Call", 0, "cEther">>,
    <<"cToken.liquidateBorrow", "cToken", "Call", 0, "other">>,
    <<"cEther.liquidateBorrow", "cEther", "Call", 0, "cToken">>,
    <<"cEther.liquidateBorrow", "cEther", "Call", 0, "other">>,
    <<"cToken.liquidateBorrow", "other", "Call", 0, "cEther">>,
    <<"cToken.liquidateBorrow", "cToken", "DelegateCall", 0, "cToken">>,
    <<"seize", "cToken", "Call", 5, "-">>,
    <<"seizeInternal", "cToken", "Call", 7, "-">>,
    <<"other", "other", "Call", 0, "-">> }

\* an inspection whose actions are unclassified calls listed in pre-order
InitLiquidation ==
  /\ max = 1
  /\ chain = <<>>
  /\ NewBatchEvaluator
  /\ \E n \in 0..MaxActions :
       \E at \in [1..n -> TracePaths], c \in [1..n -> LiquidationCalls],
          st \in Statuses :
         /\ \A k \in 1..(n - 1) : PathBefore(at[k], at[k + 1])
         /\ inspection0 =
              [actions |-> [k \in 1..n |->
                              CallTrace(at[k], c[k][1], c[k][2], c[k][3],
                                        c[k][4], c[k][5])],
               status |-> st, protocols |-> {}]
  /\ inspection = inspection0
  /\ pass_done = FALSE
  /\ inspector = "Compound"

NextLiquidation == Inspect

SpecLiquidation == InitLiquidation /\ [][NextLiquidation]_vars

\* the seizeTokens of the seize and seizeInternal calls that are subcalls of
\* the call at index i
SeizedBySubcalls(actions, i) ==
  { actions[j].seize_tokens : j \in
      { k \in DOMAIN actions :
          /\ AsCall(actions[k]) /\ IsSeize(actions[k])
          /\ IsSubcall(actions[i].trace_address, actions[k].trace_address) } }

\* the received_amount of a Liquidation is the seizeTokens of the first seize
\* or seizeInternal call listed after its liquidateBorrow call
SeizedFromFirstLaterSeize ==
  pass_done =>
    \A i \in LiquidationActions(inspection.actions) :
       inspection.actions[i].received_amount =
         Head(FindSeize(actions_after(inspection0.actions, i))).seize_tokens

C14_ReceivedTokenIsUnderlying ==
  pass_done =>
    \A i \in LiquidationActions(inspection.actions) :
       LET call == inspection0.actions[i]
           Mapped(a) == IF a = "cToken" THEN "Token"
                        ELSE IF a = "cEther" THEN "WETH" ELSE a
       IN  /\ inspection.actions[i].received_token =
                Mapped(call.ctoken_collateral)
           /\ inspection.actions[i].sent_token = Mapped(call.to)

\* C14 (amended): the received_token of every Liquidation action is the
\* decoded cTokenCollateral address itself, not mapped; its sent_token is the
\* called cToken mapped through the cToken-to-underlying map (cEther to
\* wrapped ether), an address absent from the map being kept.
C14_ReceivedTokenIsCollateral ==
  pass_done =>
    \A i \in LiquidationActions(inspection.actions) :
       LET call == inspection0.actions[i]
           Mapped(a) == IF a = "cToken" THEN "Token"
                        ELSE IF a = "cEther" THEN "WETH" ELSE a
       IN  /\ inspection.actions[i].received_token = call.ctoken_collateral
           /\ inspection.actions[i].sent_token = Mapped(call.to)

\* a liquidation of cEther collateral through a mapped cToken, and one called
\* on an address that is not in the map
C14_Witness ==
  /\ pass_done
  /\ \E i \in LiquidationActions(inspection.actions) :
       /\ inspection0.actions[i].to = "cToken"
       /\ inspection.actions[i].sent_token = "Token"
       /\ inspection.actions[i].received_token = "cEther"
  /\ \E i \in LiquidationActions(inspection.actions) :
       /\ inspection0.actions[i].to = "other"
       /\ inspection.actions[i].sent_token = "other"

\* ------------------------------------------------------------------------
\* The Balancer inspector pass (src/inspectors/balancer.rs)
\* ------------------------------------------------------------------------

\* an unclassified call whose input carries the tokenIn and tokenOut
\* arguments of a swap
SwapCall(input, to, token_in, token_out) ==
  [cls |-> "Unknown", input |-> input, to |-> to, token_in |-> token_in,
   token_out |-> token_out]

\* a classified Transfer action
Transfer(token, from, to) ==
  [cls |-> "Known", action |-> "Transfer", token |-> token, from |-> from,
   to |-> to]

\* Classification::new(Trade::new(t1, t2), Vec::new())
Trade(t1, t2) == [cls |-> "Known", action |-> "Trade", t1 |-> t1, t2 |-> t2]

\* the actions an Inspection handed to the Balancer pass can hold
BalancerActions ==
  { SwapCall("swapExactAmountIn", "pool", "A", "B"),
    SwapCall("swapExactAmountOut", "pool", "B", "A"),
    SwapCall("other", "BALANCER_PROXY", "-", "-"),
    SwapCall("other", "pool", "-", "-"),
    Transfer("A", "user", "pool"),
    Transfer("B", "pool", "user"),
    Transfer("B", "user", "pool"),
    Transfer("A", "pool", "user"),
    Pruned }

\* is_protocol: whether the address is the Balancer proxy
is_protocol(to) == to = "BALANCER_PROXY"

\* the input decodes as one of the pool's two swap functions
IsSwap(a) ==
  Decodes("swapExactAmountIn", a.input) \/ Decodes("swapExactAmountOut", a.input)

as_transfer(a) == a.cls = "Known" /\ a.action = "Transfer"

\* find_matching over actions.iter().enumerate().skip(i + 1): the index of
\* the first transfer of the token after index i, 0 when there is none
find_matching(actions, i, token) ==
  LET matching == { j \in DOMAIN actions :
                      /\ j > i
                      /\ as_transfer(actions[j])
                      /\ actions[j].token = token }
  IN  IF matching = {} THEN 0
      ELSE CHOOSE j \in matching : \A k \in matching : j <= k

\* faulty variant: the two legs are not validated against each other
LegsOpposeAlways(t1, t2) == TRUE

\* the validation of the two legs: the swap goes on unless
\* t1.from != t2.to || t2.from != t1.to
LegsOppose(t1, t2) == ~(t1.from # t2.to \/ t2.from # t1.to)

\* faulty variant: the pruned actions are removed from the list
ApplyPruneRemoving(insp, prune) ==
  LET Keep(p) == p \notin prune
      kept == SelectSeq([p \in DOMAIN insp.actions |-> p], Keep)
  IN  [insp EXCEPT !.actions = [q \in DOMAIN kept |-> insp.actions[kept[q]]]]

\* faulty variant: once anything is pruned, every transfer is
ApplyPruneAllTransfers(insp, prune) ==
  [insp EXCEPT !.actions = [p \in DOMAIN @ |->
                              IF prune # {} /\ as_transfer(@[p])
                              THEN Pruned ELSE @[p]]]

\* prune.iter().for_each(|p| inspection.actions[*p] = Classification::Prune)
ApplyPrune(insp, prune) ==
  [insp EXCEPT !.actions = [p \in DOMAIN @ |->
                              IF p \in prune THEN Pruned ELSE @[p]]]

\* the loop of Balancer::inspect from index i on; `actions` is the copy of
\* the action list taken before the loop
RECURSIVE BalancerFrom(_, _, _, _)
BalancerFrom(insp, actions, i, prune) ==
  IF i > Len(insp.actions) THEN ApplyPrune(insp, prune)
  ELSE
    LET action == insp.actions[i]
        tagged == [insp EXCEPT !.protocols = @ \cup {"Balancer"}]
    IN  IF ~AsCall(action) THEN BalancerFrom(insp, actions, i + 1, prune)
        ELSE IF ~IsSwap(action)
        THEN IF is_protocol(action.to)
             THEN BalancerFrom(tagged, actions, i + 1, prune)
             ELSE BalancerFrom(insp, actions, i + 1, prune)
        ELSE
          LET j == find_matching(actions, i, action.token_in)
              k == find_matching(actions, i, action.token_out)
          IN  IF j # 0 /\ k # 0
              THEN IF ~LegsOppose(actions[j], actions[k])
                   THEN BalancerFrom(insp, actions, i + 1, prune)
                   ELSE BalancerFrom(
                          [tagged EXCEPT
                             !.actions[i] = Trade(actions[j], actions[k])],
                          actions, i + 1, prune \cup {j, k})
              ELSE BalancerFrom(insp, actions, i + 1, prune)

\* Balancer::inspect
BalancerInspect(insp) == BalancerFrom(insp, insp.actions, 1, {})

InitBalancer ==
  /\ max = 1
  /\ chain = <<>>
  /\ NewBatchEvaluator
  /\ \E n \in 0..MaxSwapActions :
       \E acts \in [1..n -> BalancerActions] :
         inspection0 = [actions |-> acts, status |-> "Success",
                        protocols |-> {}]
  /\ inspection = inspection0
  /\ pass_done = FALSE
  /\ inspector = "Balancer"

\* the Balancer pass runs over the inspection
InspectBalancer ==
  /\ inspector = "Balancer"
  /\ ~pass_done
  /\ inspection' = BalancerInspect(inspection)
  /\ pass_done' = TRUE
  /\ UNCHANGED <<batchVars, inspection0, inspector, inspectors, reducers>>

NextBalancer == InspectBalancer

SpecBalancer == InitBalancer /\ [][NextBalancer]_vars

\* the swap calls of an action list and, for a swap call, the two transfers
\* matched to it
SwapCalls(actions) ==
  { i \in DOMAIN actions : AsCall(actions[i]) /\ IsSwap(actions[i]) }

LegIn(actions, i) == find_matching(actions, i, actions[i].token_in)

LegOut(actions, i) == find_matching(actions, i, actions[i].token_out)

\* the swap calls the pass replaced by a Trade
Trades ==
  { i \in SwapCalls(inspection0.actions) :
      inspection.actions[i].cls = "Known" }

\* the transfers the pass pruned
PrunedByPass ==
  { p \in DOMAIN inspection0.actions :
      inspection.actions[p] = Pruned /\ inspection0.actions[p] # Pruned }

\* C15: a swap call is replaced by Trade(in, out) only when both transfers
\* are found and in.to = out.from and in.from = out.to; otherwise the call's
\* action is left as it was; and no transfer is pruned except the two legs of
\* a call that was replaced.
C15_TradeOnlyWhenValidated ==
  pass_done =>
    LET a0 == inspection0.actions
    IN  /\ \A i \in SwapCalls(a0) :
             LET j == LegIn(a0, i)
                 k == LegOut(a0, i)
             IN  IF /\ j # 0 /\ k # 0
                    /\ a0[j].to = a0[k].from
                    /\ a0[j].from = a0[k].to
                 THEN inspection.actions[i] = Trade(a0[j], a0[k])
                 ELSE inspection.actions[i] = a0[i]
        /\ \A p \in PrunedByPass :
             \E i \in Trades : p \in {LegIn(a0, i), LegOut(a0, i)}

\* one swap call became a Trade and another, lacking a leg, was left as it
\* was
C15_Witness ==
  /\ pass_done
  /\ Trades # {}
  /\ \E i \in SwapCalls(inspection0.actions) :
       /\ i \notin Trades
       /\ inspection.actions[i] = inspection0.actions[i]
       /\ LegIn(inspection0.actions, i) # 0
  /\ PrunedByPass # {}

\* both transfers of every emitted Trade are marked Prune, and every
\* transfer the pass pruned is a leg of some emitted Trade
TradeLegsPruned ==
  pass_done =>
    /\ \A i \in Trades :
         /\ inspection.actions[LegIn(inspection0.actions, i)] = Pruned
         /\ inspection.actions[LegOut(inspection0.actions, i)] = Pruned
    /\ \A p \in PrunedByPass :
         \E i \in Trades :
            p \in {LegIn(inspection0.actions, i), LegOut(inspection0.actions, i)}

\* C16: both transfers of every emitted Trade are marked Prune, and every
\* transfer the pass pruned is a leg of exactly one emitted Trade: no
\* transfer is consumed by two swap calls.
C16_NoTransferConsumedTwice ==
  /\ TradeLegsPruned
  /\ pass_done =>
       \A p \in PrunedByPass :
          Cardinality({ i \in Trades :
                          p \in {LegIn(inspection0.actions, i),
                                 LegOut(inspection0.actions, i)} }) = 1

\* ------------------------------------------------------------------------
\* Either inspector pass over its inspection
\* ------------------------------------------------------------------------

InitInspectors == InitCompound \/ InitBalancer

NextInspectors ==
  \/ Inspect
  \/ InspectBalancer

SpecInspectors == InitInspectors /\ [][NextInspectors]_vars

\* C19: neither pass deletes or inserts an action: the list keeps its
\* length, an action the pass did not touch is at the index it had, a call
\* the pass classified is rewritten at its own index, and a superseded
\* transfer is re-tagged Prune at its own index.
C19_ActionsKeptInPlace ==
  pass_done =>
    /\ Len(inspection.actions) = Len(inspection0.actions)
    /\ \A i \in DOMAIN inspection0.actions :
         \/ inspection.actions[i] = inspection0.actions[i]
         \/ /\ AsCall(inspection0.actions[i])
            /\ inspection.actions[i].cls = "Known"
            /\ inspection.actions[i].action \in
                 {"Liquidation", "LiquidationCheck", "Trade"}
         \/ /\ as_transfer(inspection0.actions[i])
            /\ inspection.actions[i] = Pruned

\* the Balancer pass pruned a transfer and an action listed after it is where
\* it was
C19_Witness ==
  /\ pass_done
  /\ inspector = "Balancer"
  /\ \E p \in PrunedByPass :
       \E q \in DOMAIN inspection0.actions :
          /\ q > p
          /\ inspection0.actions[q] # Pruned
          /\ inspection.actions[q] = inspection0.actions[q]

\* ------------------------------------------------------------------------
\* The registered decoders over the calls of one transaction
\* (src/traits.rs, BatchInspector::inspect_tx)
\* ------------------------------------------------------------------------

\* an InternalCall of a freshly created TransactionData
InternalCall(to, input) ==
  [to |-> to, input |-> input, protocol |-> "None",
   classification |-> "Unknown"]

InternalCalls ==
  { InternalCall(to, input) :
      to \in {"BALANCER_PROXY", "pool"},
      input \in {"swapExactAmountIn", "cToken.liquidateBorrow", "other"} }

\* a registry of decoders and an unclassified transaction; inspection0 is
\* the transaction as it was before the latest pass
InitDecoders ==
  /\ max = 1
  /\ chain = <<>>
  /\ BatchEvaluatorFields
  /\ \E n \in 0..MaxInspectors : inspectors \in [1..n -> DecoderTags]
  /\ reducers = <<>>
  /\ \E n \in 0..MaxCalls :
       \E calls \in [1..n -> InternalCalls] :
         inspection0 = [calls |-> calls, passes |-> <<>>]
  /\ inspection = inspection0
  /\ pass_done = FALSE
  /\ inspector = "-"

\* inspect_tx's loop reaches the next registered decoder, whose pass runs
\* over the transaction
InspectorPass ==
  /\ Len(inspection.passes) < Len(inspectors)
  /\ LET d == inspectors[Len(inspection.passes) + 1]
     IN  /\ inspection' = DefiProtocolInspect(d, inspection)
         /\ inspector' = d
  /\ inspection0' = inspection
  /\ pass_done' = (Len(inspection.passes) + 1 = Len(inspectors))
  /\ UNCHANGED <<batchVars, inspectors, reducers>>

NextDecoders == InspectorPass

SpecDecoders == InitDecoders /\ [][NextDecoders]_vars

\* C17: a decoder's pass leaves a call alone when is_protocol(call.to) is
\* Some(false); for Some(true) and None it classifies: on success the call
\* carries the decoder's protocol tag and the classification returned, on
\* failure its protocol and classification are unchanged. (The pass iterates
\* the calls that are not processed yet.)
C17_SkipOnlyOnSomeFalse ==
  inspector # "-" =>
    \A c \in DOMAIN inspection0.calls :
       LET before == inspection0.calls[c]
           after  == inspection.calls[c]
       IN  IF before.classification # "Unknown" THEN after = before
           ELSE IF IsProtocol(inspector, before.to) = "Some(false)"
           THEN after = before
           ELSE IF ClassifyCall(inspector, before) = "None"
           THEN after = before
           ELSE /\ after.protocol = inspector
                /\ after.classification = ClassifyCall(inspector, before)
                /\ after.to = before.to /\ after.input = before.input

\* Balancer's pass skipped a swap call to an address that is not the proxy
\* and classified a swap call to the proxy
C17_Witness ==
  /\ inspector = "Balancer"
  /\ \E c \in DOMAIN inspection0.calls :
       /\ inspection0.calls[c].classification = "Unknown"
       /\ IsProtocol("Balancer", inspection0.calls[c].to) = "Some(false)"
       /\ ClassifyCall("Balancer", inspection0.calls[c]) = "Swap"
       /\ inspection.calls[c] = inspection0.calls[c]
  /\ \E c \in DOMAIN inspection0.calls :
       /\ inspection0.calls[c].classification = "Unknown"
       /\ inspection.calls[c].protocol = "Balancer"
       /\ inspection.calls[c].classification = "Swap"

\* C18: the first decoder to claim a call wins: a call whose classification
\* is not Unknown keeps its classification and its protocol tag through
\* every later decoder's pass.
C18_FirstDecoderWins ==
  [][\A c \in DOMAIN inspection.calls :
        inspection.calls[c].classification # "Unknown" =>
           /\ inspection'.calls[c].classification =
                inspection.calls[c].classification
           /\ inspection'.calls[c].protocol = inspection.calls[c].protocol]_vars

\* Balancer claimed a call, and a later decoder that classifies the same
\* input has run and left it Balancer's
C18_Witness ==
  /\ inspectors = <<"Balancer", "BalancerFork">>
  /\ Len(inspection.passes) = 2
  /\ \E c \in DOMAIN inspection.calls :
       /\ inspection0.calls[c].protocol = "Balancer"
       /\ ShouldClassify("BalancerFork", inspection0.calls[c])
       /\ ClassifyCall("BalancerFork", inspection0.calls[c]) = "Swap"
       /\ inspection.calls[c].protocol = "Balancer"

\* the passes a transaction has been through once every registered inspector
\* and then every registered reducer has run on it, in registration order
AllPassesInOrder ==
  [k \in 1..Len(inspectors) |-> <<"inspect", inspectors[k]>>]
    \o [k \in 1..Len(reducers) |-> <<"reduce", reducers[k]>>]

\* C20: every transaction in the evaluation pool or in the waiting queue, and
\* every transaction the latest poll placed, has been through all registered
\* inspectors in registration order and then through all registered reducers
\* in registration order.
C20_InspectedThenReduced ==
  /\ \A tx \in evaluations_queue.pending \cup Range(waiting_inspections) :
       tx.passes = AllPassesInOrder
  /\ \A k \in DOMAIN placed : placed[k].tx.passes = AllPassesInOrder

\* a poll has put one transaction in the pool and another in the waiting
\* queue, each after two inspectors and two reducers
C20_Witness ==
  /\ Len(inspectors) = 2 /\ Len(reducers) = 2
  /\ evaluations_queue.pending # {}
  /\ waiting_inspections # <<>>
  /\ \E k \in DOMAIN placed : placed[k].where = "waiting"
  /\ \A tx \in evaluations_queue.pending : Len(tx.passes) = 4

\* the transactions that are queued for evaluation: in the pool, in the
\* waiting queue, or placed by the latest poll
QueuedTransactions ==
  evaluations_queue.pending \cup Range(waiting_inspections)
    \cup { placed[k].tx : k \in DOMAIN placed }

\* the gas_used a receipt carries, zero when it carries none
ReceiptGasUsed(r) == IF r.gas_used = <<>> THEN 0 ELSE r.gas_used[1]

\* C21: every queued transaction carries the gas_used of the receipt of its
\* own block whose transaction_hash is its hash and the gas_price of the body
\* transaction of its own block with its hash; where the receipt or the body
\* transaction is missing, or the receipt has no gas_used, the value is zero;
\* and every transaction of a processed block is materialized all the same.
C21_GasFromSameBlock ==
  /\ \A tx \in QueuedTransactions \cup AllMaterialized :
       LET data == chain[tx.block_number]
           rs == { i \in DOMAIN data.receipts :
                     data.receipts[i].transaction_hash = tx.hash }
           bs == { i \in DOMAIN data.transactions :
                     data.transactions[i].hash = tx.hash }
       IN  /\ \A i \in rs : tx.gas_used = ReceiptGasUsed(data.receipts[i])
           /\ rs = {} => tx.gas_used = 0
           /\ \A i \in bs : tx.gas_price = data.transactions[i].gas_price
           /\ bs = {} => tx.gas_price = 0
  /\ \A b \in DOMAIN materialized :
       Len(materialized[b]) = NumTransactions(chain[b])

\* queued at once: a transaction with its receipt's gas_used and its body
\* transaction's gas_price, one whose receipt has no gas_used and whose body
\* transaction is missing, and one whose receipt is missing
C21_Witness ==
  LET now == evaluations_queue.pending \cup Range(waiting_inspections)
  IN  /\ \E tx \in now : tx.gas_used = 21 /\ tx.gas_price = 7
      /\ \E tx \in now :
           /\ tx.gas_used = 0 /\ tx.gas_price = 0
           /\ \E i \in DOMAIN chain[tx.block_number].receipts :
                /\ chain[tx.block_number].receipts[i].transaction_hash = tx.hash
                /\ chain[tx.block_number].receipts[i].gas_used = <<>>
      /\ \E tx \in now :
           /\ tx.gas_used = 0 /\ tx.gas_price = 9
           /\ \A i \in DOMAIN chain[tx.block_number].receipts :
                chain[tx.block_number].receipts[i].transaction_hash # tx.hash

\* ------------------------------------------------------------------------
\* The batch stream over blocks of up to three transactions, so that several
\* transactions wait at once
\* ------------------------------------------------------------------------

ThreeTransactions ==
  [traces |-> <<"h1", "h2", "h3">>, logs |-> <<>>, receipts |-> <<>>,
   transactions |-> <<>>]

TwoTransactions ==
  [traces |-> <<"h1", "h2">>, logs |-> <<>>, receipts |-> <<>>,
   transactions |-> <<>>]

OneTransaction ==
  [traces |-> <<"h1">>, logs |-> <<>>, receipts |-> <<>>,
   transactions |-> <<>>]

\* the block ranges the stream is run over
WaitingChains ==
  { <<ThreeTransactions>>, <<ThreeTransactions, TwoTransactions>>,
    <<TwoTransactions, ThreeTransactions>>,
    <<OneTransaction, ThreeTransactions>> }

InitWaiting ==
  /\ max \in 1..MaxCap
  /\ chain \in WaitingChains
  /\ NewBatchEvaluator
  /\ InspectIdle

SpecWaiting == InitWaiting /\ [][Next]_vars

\* the step is a poll_next: it returned an item, or it put the driver to sleep
IsPoll == emitted' # emitted \/ (woken /\ ~woken')

\* the transactions among the moves `p` that went to `where`, in order
Moved(p, where) ==
  LET sel == SelectSeq(p, LAMBDA e : e.where = where)
  IN  [k \in DOMAIN sel |-> sel[k].tx]

\* C22: in every poll the transactions that leave the waiting queue are a
\* prefix of it, taken in order; they enter the pool before any transaction
\* the poll classifies is placed; a poll that classifies a block has emptied
\* the waiting queue first; and newly classified transactions go to the pool
\* before any of them goes to the back of the waiting queue.
C22_WaitingFifo ==
  [][IsPoll =>
       LET drained == Moved(placed', "drained")
           waited  == Moved(placed', "waiting")
           n       == Len(drained)
       IN  /\ n <= Len(waiting_inspections)
           /\ drained = SubSeq(waiting_inspections, 1, n)
           /\ waiting_inspections' =
                SubSeq(waiting_inspections, n + 1, Len(waiting_inspections))
                  \o waited
           /\ \A i, j \in DOMAIN placed' :
                /\ (placed'[i].where = "drained" /\ placed'[j].where # "drained")
                     => i < j
                /\ (placed'[i].where = "pool" /\ placed'[j].where = "waiting")
                     => i < j
           /\ (\E k \in DOMAIN placed' : placed'[k].where # "drained")
                => n = Len(waiting_inspections)
    ]_vars

\* two transactions were waiting and a poll moved the first of them into the
\* pool
C22_Witness ==
  /\ Len(placed) = 1 /\ placed[1].where = "drained"
  /\ waiting_inspections # <<>>
  /\ placed[1].tx.hash = "h2" /\ waiting_inspections[1].hash = "h3"

\* ------------------------------------------------------------------------
\* get_block_info on its own: each block of the range is fetched once, under
\* every outcome of its four remote calls
\* ------------------------------------------------------------------------

NotFetched ==
  [calls |-> <<>>,
   result |-> [kind |-> "none", block_number |-> 0, data |-> NoData]]

InitFetch ==
  /\ max = 1
  /\ \E n \in 1..MaxBlocks :
       chain \in [1..n -> {TwoTransactions, ThreeTransactions}]
  /\ NewBatchInspector
  /\ InspectIdle
  /\ block_infos = NewBlockInfos(Len(chain))
  /\ evaluations_queue = [pending |-> {}, ready |-> <<>>]
  /\ waiting_inspections = <<>>
  /\ blocks_done = FALSE
  /\ emitted = EmptyBag
  /\ poll_result = "none"
  /\ woken = TRUE
  /\ placed = <<>>
  /\ pulled = <<>>
  /\ registered = {}
  /\ promised = Len(chain)
  /\ materialized = <<>>
  /\ eval_failed = {}
  /\ fetch_result = [b \in Blocks |-> NotFetched]

\* get_block_info(b) runs to its result; the outcomes of the four remote
\* calls are kept next to it
GetBlockInfo(b) ==
  /\ fetch_result[b].calls = <<>>
  /\ \E tr \in RpcOutcome, bl \in BlockOutcome, rc \in RpcOutcome,
        lg \in RpcOutcome :
       \E res \in get_block_info(b, tr, bl, rc, lg) :
         fetch_result' = [fetch_result EXCEPT
                            ![b] = [calls |-> <<tr, bl, rc, lg>>,
                                    result |-> res]]
  /\ UNCHANGED <<max, chain, block_infos, evaluations_queue,
                 waiting_inspections, blocks_done, emitted, poll_result,
                 woken, placed, pulled, registered, promised, materialized,
                 eval_failed, inspectVars>>

NextFetch == \E b \in Blocks : GetBlockInfo(b)

SpecFetch == InitFetch /\ [][NextFetch]_vars

\* the blocks whose get_block_info has returned
Fetched == { b \in Blocks : fetch_result[b].calls # <<>> }

\* one of the four remote calls of block b failed
AnyCallFailed(b) == \E k \in 1..4 : fetch_result[b].calls[k] = "err"

\* get_block_with_txs answered for block b that there is no such block
BlockMissing(b) == fetch_result[b].calls[2] = "none"

\* C23 as stated: the result is the joint data exactly when all four calls
\* succeed and the block exists, NotFound(n) when the block is missing and no
\* call fails, and a Block error for n whenever any of the four calls fails.
C23_BlockErrorOnAnyFailure ==
  \A b \in Fetched :
    LET r == fetch_result[b].result
    IN  /\ r.block_number = b
        /\ (r.kind = "Ok") <=> (~AnyCallFailed(b) /\ ~BlockMissing(b))
        /\ (BlockMissing(b) /\ ~AnyCallFailed(b)) => r.kind = "NotFound"
        /\ AnyCallFailed(b) => r.kind = "Block"

\* C23, amended: as above, except that a failing call gives a Block error
\* for certain only when the block is not reported missing; when the block
\* is missing and another call fails, the result is NotFound(n) or a Block
\* error for n.
C23_BlockErrorUnlessMissing ==
  \A b \in Fetched :
    LET r == fetch_result[b].result
    IN  /\ r.block_number = b
        /\ (r.kind = "Ok") <=> (~AnyCallFailed(b) /\ ~BlockMissing(b))
        /\ r.kind = "Ok" => r.data = chain[b]
        /\ (BlockMissing(b) /\ ~AnyCallFailed(b)) => r.kind = "NotFound"
        /\ (AnyCallFailed(b) /\ ~BlockMissing(b)) => r.kind = "Block"
        /\ (AnyCallFailed(b) /\ BlockMissing(b))
             => r.kind \in {"Block", "NotFound"}

\* one block's fetch failed on a remote call with the block present, and
\* another block was missing while its remote calls succeeded
C23_Witness ==
  \E b, c \in Fetched :
    /\ AnyCallFailed(b) /\ ~BlockMissing(b)
    /\ fetch_result[b].result = BlockError(b)
    /\ BlockMissing(c) /\ ~AnyCallFailed(c)
    /\ fetch_result[c].result = BlockNotFound(c)

\* C24: once a liquidation with a seize was found at index j, every
\* pre-flight at a later index is left as it was, and the pass does not end
\* with status Checked: the status is Success, or Reverted if it was
\* Reverted when the liquidation was found.
C24_NoCheckAfterFound ==
  pass_done =>
    \A j \in DOMAIN inspection0.actions :
      FoundAt(inspection0.actions, j) =>
        /\ \A i \in DOMAIN inspection0.actions :
             (i > j /\ is_preflight(inspection0.actions[i])) =>
               inspection.actions[i] = inspection0.actions[i]
        /\ inspection.status \in {"Success", "Reverted"}
        /\ inspection.status = "Reverted" => inspection0.status = "Reverted"

\* a liquidation with its seize came first, a pre-flight after them, and the
\* pre-flight is still an unclassified call while the status is Success
C24_Witness ==
  /\ pass_done
  /\ Len(inspection0.actions) = 3
  /\ FoundAt(inspection0.actions, 1)
  /\ is_preflight(inspection0.actions[3])
  /\ inspection.actions[3] = inspection0.actions[3]
  /\ inspection0.status = "Checked"
  /\ inspection.status = "Success"

\* the regular liquidateBorrow calls of a sequence with no seize after them
LiquidationsWithoutSeize(actions) ==
  { i \in RegularLiquidations(actions) :
      FindSeize(actions_after(actions, i)) = <<>> }

\* C26: a regular liquidateBorrow call with no seize among the later actions
\* is left as the unclassified call it was; if the sequence holds nothing
\* else the pass reacts to, the status is unchanged; and a later pre-flight
\* is still rewritten and sets the status to Checked unless a liquidation
\* with a seize was found before it.
C26_NoSeizeLeavesUnknown ==
  pass_done =>
    LET a0 == inspection0.actions
    IN  /\ \A i \in LiquidationsWithoutSeize(a0) :
             /\ inspection.actions[i] = a0[i]
             /\ AsCall(inspection.actions[i])
             /\ \A k \in DOMAIN a0 :
                  ( /\ k > i
                    /\ is_preflight(a0[k])
                    /\ ~ \E j \in DOMAIN a0 : j < k /\ FoundAt(a0, j) )
                  => IsCheck(inspection.actions[k])
        /\ ( /\ LiquidationsWithoutSeize(a0) # {}
             /\ ~LiquidationFound(a0)
             /\ ~PreflightSeen(a0) )
           => inspection.status = inspection0.status
        /\ ( /\ LiquidationsWithoutSeize(a0) # {}
             /\ ~LiquidationFound(a0)
             /\ PreflightSeen(a0) )
           => inspection.status = "Checked"

\* a liquidateBorrow without a seize was followed by a pre-flight: the call
\* is unchanged, the pre-flight became a LiquidationCheck and the status
\* Checked
C26_Witness ==
  /\ pass_done
  /\ Len(inspection0.actions) >= 2
  /\ 1 \in LiquidationsWithoutSeize(inspection0.actions)
  /\ is_preflight(inspection0.actions[2])
  /\ inspection.actions[1] = inspection0.actions[1]
  /\ IsCheck(inspection.actions[2])
  /\ inspection0.status = "Success"
  /\ inspection.status = "Checked"

\* the swap calls of a sequence whose two transfers are found and oppose
\* each other
ValidatedSwaps(actions) ==
  { i \in SwapCalls(actions) :
      /\ LegIn(actions, i) # 0
      /\ LegOut(actions, i) # 0
      /\ LegsOppose(actions[LegIn(actions, i)], actions[LegOut(actions, i)]) }

\* the transfers matched to the validated swaps of a sequence
ConsumedTransfers(actions) ==
  UNION { {LegIn(actions, i), LegOut(actions, i)} :
            i \in ValidatedSwaps(actions) }

\* C25: after the Balancer pass the list has the same length; a validated
\* swap call holds the Trade of its two transfers, the transfers matched to
\* a validated swap are pruned, and every other action is the one that was
\* at that position before.
C25_OnlyTradeAndLegsChange ==
  (pass_done /\ inspector = "Balancer") =>
    LET a0 == inspection0.actions
    IN  /\ Len(inspection.actions) = Len(a0)
        /\ \A i \in DOMAIN a0 :
             IF i \in ValidatedSwaps(a0)
             THEN inspection.actions[i] =
                    Trade(a0[LegIn(a0, i)], a0[LegOut(a0, i)])
             ELSE IF i \in ConsumedTransfers(a0)
             THEN inspection.actions[i] = Pruned
             ELSE inspection.actions[i] = a0[i]

\* one swap became a Trade and a transfer it did not consume is still in the
\* list, where it was
C25_Witness ==
  /\ pass_done /\ inspector = "Balancer"
  /\ ValidatedSwaps(inspection0.actions) # {}
  /\ \E q \in DOMAIN inspection0.actions :
       /\ as_transfer(inspection0.actions[q])
       /\ q \notin ConsumedTransfers(inspection0.actions)
       /\ inspection.actions[q] = inspection0.actions[q]

\* a call of the sequence decodes as liquidateBorrow
DecodesLiquidation(actions) ==
  \E i \in DOMAIN actions : IsLiquidation(actions[i])

\* C27: after the Compound pass the protocol set is the one before the pass
\* with Compound added exactly when some call of the sequence decodes as
\* liquidateBorrow, be it a DelegateCall or one without a seize; nothing else
\* is added or removed.
C27_CompoundTagIffLiquidation ==
  (pass_done /\ inspector = "Compound") =>
    /\ ("Compound" \in inspection.protocols)
         <=> DecodesLiquidation(inspection0.actions)
    /\ inspection.protocols \ {"Compound"} = inspection0.protocols

\* a lone DelegateCall liquidateBorrow without a seize got the inspection
\* tagged next to the tag it had, while its action was left alone
C27_Witness ==
  /\ pass_done /\ inspector = "Compound"
  /\ Len(inspection0.actions) = 1
  /\ IsLiquidation(inspection0.actions[1])
  /\ inspection0.actions[1].call_type = "DelegateCall"
  /\ inspection0.protocols = {"Uniswap"}
  /\ inspection.protocols = {"Uniswap", "Compound"}
  /\ inspection.actions = inspection0.actions

\* C28: every block result a poll takes from the fetch stage is taken with
\* the waiting queue empty and fewer than max evaluations in the pool; the
\* waiting queue holds transactions of one block only, and no more of them
\* than that block has transactions.
C28_PullOnlyWhenDrained ==
  /\ \A k \in DOMAIN pulled :
       pulled[k].waiting = 0 /\ pulled[k].evals < max
  /\ \A i, j \in DOMAIN waiting_inspections :
       waiting_inspections[i].block_number = waiting_inspections[j].block_number
  /\ waiting_inspections # <<>> =>
       Len(waiting_inspections)
         <= NumTransactions(chain[waiting_inspections[1].block_number])

\* one poll pulled two blocks, the second with an evaluation already in the
\* pool, and two transactions of the second block had to wait
C28_Witness ==
  /\ Len(pulled) = 2
  /\ pulled[2].evals = 1 /\ pulled[2].waiting = 0
  /\ Len(waiting_inspections) = 2
  /\ \A i \in DOMAIN waiting_inspections :
       waiting_inspections[i].block_number = pulled[2].block_number

\* how often a transaction is in the waiting queue, in the evaluation pool
\* (its evaluation running, or finished and not yet yielded), and among the
\* emitted items
TimesWaiting(t) ==
  Cardinality({ i \in DOMAIN waiting_inspections : waiting_inspections[i] = t })

TimesInPool(t) ==
  (IF t \in evaluations_queue.pending THEN 1 ELSE 0)
    + Cardinality({ i \in DOMAIN evaluations_queue.ready :
                      /\ evaluations_queue.ready[i].block_number = t.block_number
                      /\ evaluations_queue.ready[i].hash = t.hash })

TimesEmitted(t) == TxItems(t.block_number, t.hash)

\* C29: every materialized transaction is in exactly one place: once in the
\* waiting queue, once in the evaluation pool, or emitted once; and the
\* waiting queue and the pool hold materialized transactions only.
C29_ExactlyOnePlace ==
  /\ \A t \in AllMaterialized :
       TimesWaiting(t) + TimesInPool(t) + TimesEmitted(t) = 1
  /\ Range(waiting_inspections) \cup evaluations_queue.pending
       \subseteq AllMaterialized

\* a poll has just moved a transaction from the waiting queue into the pool
\* while another is still waiting and a third has been emitted
C29_Witness ==
  /\ Len(placed) = 1 /\ placed[1].where = "drained"
  /\ TimesInPool(placed[1].tx) = 1
  /\ waiting_inspections # <<>>
  /\ \E t \in AllMaterialized : TimesEmitted(t) = 1

\* the latest poll returned the error of a failed fetch
ReturnedBlockError ==
  /\ pulled # <<>>
  /\ pulled[Len(pulled)].kind \in {"Block", "NotFound"}

\* C30: after a poll that returned a block-fetch error, the pool and the
\* waiting queue are as large as they were when the error was taken from the
\* fetch stage; every transaction that poll drained or placed before the
\* error is in the pool or in the waiting queue; every materialized
\* transaction is queued or emitted; and the stream does not end before all
\* of them are emitted.
C30_BlockErrorLeavesQueues ==
  /\ ReturnedBlockError =>
       /\ EvalLen(evaluations_queue) = pulled[Len(pulled)].evals
       /\ Len(waiting_inspections) = pulled[Len(pulled)].waiting
       /\ \A k \in DOMAIN placed :
            TimesInPool(placed[k].tx) + TimesWaiting(placed[k].tx) = 1
       /\ \A t \in AllMaterialized :
            TimesWaiting(t) + TimesInPool(t) + TimesEmitted(t) = 1
  /\ ((\E b \in Blocks : BlockErrItems(b) >= 1) /\ poll_result = "end") =>
       \A t \in AllMaterialized : TimesEmitted(t) = 1

\* one poll classified a block, queued its transaction and then returned
\* the error of the next block's fetch
C30_Witness ==
  /\ ReturnedBlockError
  /\ Len(pulled) = 2 /\ pulled[1].kind = "Ok"
  /\ placed # <<>>
  /\ \A k \in DOMAIN placed :
       placed[k].tx.block_number = pulled[1].block_number
  /\ EvalLen(evaluations_queue) = Len(placed)

\* a transaction queued before a fetch failed has been emitted and the
\* stream has ended
EmittedAfterBlockError ==
  /\ poll_result = "end"
  /\ \E b \in Blocks : BlockErrItems(b) = 1
  /\ \E t \in AllMaterialized : TimesEmitted(t) = 1

\* C31: whenever the latest poll_next returned Pending, the block-fetch
\* stream or the evaluation pool was polled in that call and returned
\* Pending, for every max.
C31_PendingHasWakeup ==
  poll_result = "pending" => registered # {}

\* the same for a cap of at least one
PendingHasWakeupWithCap == max >= 1 => C31_PendingHasWakeup

\* a poll returned Pending after the fetch stream alone, the pool alone, and
\* both of them returned Pending
PendingOnFetchOnly ==
  poll_result = "pending" /\ registered = {"block_infos"}

PendingOnPoolOnly ==
  poll_result = "pending" /\ registered = {"evaluations_queue"}

PendingOnBoth ==
  poll_result = "pending" /\ registered = {"block_infos", "evaluations_queue"}

\* C32: the lower bound size_hint returns in a state never exceeds the number
\* of items the stream still emits from that state: when the stream has
\* ended, the items emitted in all are at least the items emitted plus the
\* lower bound of every state passed on the way, for every block content.
C32_SizeHintLowerBound ==
  poll_result = "end" => BagCardinality(emitted) >= promised

\* the same over ranges without a block of zero transactions
SizeHintWithoutEmptyBlocks ==
  (\A b \in Blocks : chain[b].traces # <<>>) => C32_SizeHintLowerBound

\* a range of two blocks with transactions has ended with all its items
\* emitted
SizeHintMet ==
  /\ poll_result = "end"
  /\ Len(chain) = 2
  /\ \A b \in Blocks : chain[b].traces # <<>>
  /\ promised >= 2
  /\ BagCardinality(emitted) >= promised

====
